---- MODULE Spec2Model ----
(***************************************************************************)
(* EM fitting of Gaussian mixture models: mlpack::gmm::EMFit               *)
(* (src/.../methods/gmm/em_fit_impl.hpp).                                  *)
(*                                                                         *)
(* Numbers.  A C++ double is modelled by an exact rational <<n, d>> in     *)
(* lowest terms with d > 0, extended by the three non-finite IEEE values   *)
(* NaN = <<0,0>>, +inf = <<1,0>> and -inf = <<-1,0>>.  Rounding is not     *)
(* modelled: "equal" below means equal in exact arithmetic, which is what  *)
(* the specification's "within 1e-9" tolerances stand for.                 *)
(*                                                                         *)
(* Log-likelihoods.  LogLikelihood returns sum_j log(a_j) = log(prod_j     *)
(* a_j).  A log-likelihood is modelled by the argument of the logarithm,   *)
(* the likelihood P = prod_j a_j: P = 0 stands for l = -inf, P = NaN for   *)
(* l = NaN.  A tolerance tol is modelled by the ratio exp(tol), so that    *)
(* |log P - log Q| > tol is the exact comparison max(P/Q, Q/P) > exp(tol). *)
(***************************************************************************)
EXTENDS Integers, Sequences, FiniteSets, TLC

-----------------------------------------------------------------------------
(* IEEE-style arithmetic on extended rationals.                            *)

Abs(n) == IF n < 0 THEN -n ELSE n

Sign(n) == IF n < 0 THEN -1 ELSE IF n > 0 THEN 1 ELSE 0

RECURSIVE GCD(_, _)
GCD(a, b) == IF b = 0 THEN a ELSE GCD(b, a % b)

\* the rational n/d (d # 0) in lowest terms with a positive denominator; the
\* operations below cancel common factors before they multiply
Rat(n, d) ==
  LET g == GCD(Abs(n), Abs(d))
      s == Sign(d)
  IN  << (s * n) \div g, (s * d) \div g >>

Zero == << 0, 1 >>
One == << 1, 1 >>
NaN == << 0, 0 >>
PosInf == << 1, 0 >>
NegInf == << -1, 0 >>

Int2R(n) == << n, 1 >>

IsNaN(x) == x = NaN
IsFinite(x) == x[2] # 0
IsInf(x) == x[2] = 0 /\ x[1] # 0

Neg(x) == << -x[1], x[2] >>

Add(x, y) ==
  IF IsNaN(x) \/ IsNaN(y) THEN NaN
  ELSE IF IsInf(x) THEN (IF IsInf(y) /\ y # x THEN NaN ELSE x)
  ELSE IF IsInf(y) THEN y
  ELSE LET g == GCD(x[2], y[2])
       IN  Rat(x[1] * (y[2] \div g) + y[1] * (x[2] \div g), (x[2] \div g) * y[2])

Sub(x, y) == Add(x, Neg(y))

Mul(x, y) ==
  IF IsNaN(x) \/ IsNaN(y) THEN NaN
  ELSE IF IsInf(x) \/ IsInf(y)
    THEN (IF x[1] = 0 \/ y[1] = 0 THEN NaN ELSE << Sign(x[1]) * Sign(y[1]), 0 >>)
  ELSE LET g == GCD(Abs(x[1]), y[2])
           h == GCD(Abs(y[1]), x[2])
       IN  Rat((x[1] \div g) * (y[1] \div h), (x[2] \div h) * (y[2] \div g))

\* x / y as the hardware computes it: 0/0 and inf/inf are NaN, x/0 is +-inf
Div(x, y) ==
  IF IsNaN(x) \/ IsNaN(y) THEN NaN
  ELSE IF IsInf(y) THEN (IF IsInf(x) THEN NaN ELSE Zero)
  ELSE IF y[1] = 0 THEN (IF x[1] = 0 THEN NaN ELSE << Sign(x[1]), 0 >>)
  ELSE IF IsInf(x) THEN << Sign(x[1]) * Sign(y[1]), 0 >>
  ELSE LET g == GCD(Abs(x[1]), Abs(y[1]))
           h == GCD(y[2], x[2])
       IN  Rat((x[1] \div g) * (y[2] \div h), (x[2] \div h) * (y[1] \div g))

\* x > y; every comparison with NaN is false
Gt(x, y) ==
  IF IsNaN(x) \/ IsNaN(y) THEN FALSE
  ELSE IF IsInf(x) \/ IsInf(y)
    THEN (IF IsInf(x) /\ IsInf(y) THEN x[1] > y[1]
          ELSE IF IsInf(x) THEN x[1] > 0 ELSE y[1] < 0)
  ELSE LET g == GCD(x[2], y[2])
       IN  x[1] * (y[2] \div g) > y[1] * (x[2] \div g)

\* x <= y; false when either is NaN
Le(x, y) == ~IsNaN(x) /\ ~IsNaN(y) /\ ~Gt(x, y)

\* x != 0.0; true for NaN
NeZero(x) == x # Zero

\* accu(): the sum of the entries of a sequence, left to right
RECURSIVE Accu(_)
Accu(s) == IF s = << >> THEN Zero ELSE Add(Accu(SubSeq(s, 1, Len(s) - 1)), s[Len(s)])

-----------------------------------------------------------------------------
(* Vectors, matrices and the injected capabilities.                        *)
(* observations: a sequence of N points (the columns of the arma::mat),    *)
(* each a sequence of rationals.  A component (GaussianDistribution) is a  *)
(* record [Mean, Covariance]; a covariance is a sequence of rows.          *)

Dom(s) == 1 .. Len(s)

ZeroVec(n) == [a \in 1 .. n |-> Zero]
ZeroMat(r, c) == [a \in 1 .. r |-> [b \in 1 .. c |-> Zero]]

VecAdd(u, v) == [a \in Dom(u) |-> Add(u[a], v[a])]
VecSub(u, v) == [a \in Dom(u) |-> Sub(u[a], v[a])]
VecScale(u, x) == [a \in Dom(u) |-> Mul(u[a], x)]
VecDiv(u, x) == [a \in Dom(u) |-> Div(u[a], x)]

\* u * trans(v)
Outer(u, v) == [a \in Dom(u) |-> [b \in Dom(v) |-> Mul(u[a], v[b])]]
MatAdd(A, B) == [a \in Dom(A) |-> [b \in Dom(A[a]) |-> Add(A[a][b], B[a][b])]]
MatDiv(A, x) == [a \in Dom(A) |-> [b \in Dom(A[a]) |-> Div(A[a][b], x)]]

RECURSIVE VecSum(_, _)
VecSum(vs, n) == IF vs = << >> THEN ZeroVec(n)
                 ELSE VecAdd(VecSum(SubSeq(vs, 1, Len(vs) - 1), n), vs[Len(vs)])

RECURSIVE MatSum(_, _)
MatSum(ms, n) == IF ms = << >> THEN ZeroMat(n, n)
                 ELSE MatAdd(MatSum(SubSeq(ms, 1, Len(ms) - 1), n), ms[Len(ms)])

\* condProb.col(i) of a matrix stored as a sequence of rows
Col(M, i) == [r \in Dom(M) |-> M[r][i]]

\* u % v, the element-wise product
Schur(u, v) == [a \in Dom(u) |-> Mul(u[a], v[a])]

HasNaNVec(u) == \E a \in Dom(u) : ~IsFinite(u[a])
HasNaNMat(A) == \E a \in Dom(A) : HasNaNVec(A[a])

\* a policy that is not a projection: the diagonal variant halves the
\* off-diagonal entries
ApplyConstraintHalving(constraint, cov) ==
  IF constraint = "diagonal"
    THEN [a \in 1 .. Len(cov) |->
            [b \in 1 .. Len(cov[a]) |->
               IF a = b THEN cov[a][b] ELSE Mul(cov[a][b], Rat(1, 2))]]
    ELSE cov

\* The covariance constraint policy: "none" leaves the matrix alone,
\* "diagonal" zeroes every off-diagonal entry.
ApplyConstraint(constraint, cov) ==
  IF constraint = "diagonal"
    THEN [a \in Dom(cov) |-> [b \in Dom(cov[a]) |-> IF a = b THEN cov[a][b] ELSE Zero]]
    ELSE cov

\* |x|
AbsR(x) == IF IsFinite(x) THEN << Abs(x[1]), x[2] >> ELSE IF IsNaN(x) THEN NaN ELSE PosInf

\* The density of one component at one point.  The Gaussian density is a
\* capability the engine consumes; it is modelled by a kernel of bounded
\* support: with q the squared distance of the point from the mean and v the
\* spread 1 + sum |Covariance[a][b]|, the density is 1 where q <= 4v and 0
\* beyond, where the density underflows.  A non-finite mean or covariance
\* gives NaN, as exp() of NaN does.
Density(dist, x) ==
  IF HasNaNVec(dist.Mean) \/ HasNaNMat(dist.Covariance) \/ HasNaNVec(x) THEN NaN
  ELSE
    LET t == VecSub(x, dist.Mean)
        q == Accu(Schur(t, t))
        v == Add(One, Accu([a \in Dom(dist.Covariance) |->
                               Accu([b \in Dom(dist.Covariance[a]) |->
                                       AbsR(dist.Covariance[a][b])])]))
    IN  IF Le(q, Mul(Int2R(4), v)) THEN One ELSE Zero

\* dists[i].Probability(observations, probabilities)
Probability(dist, observations) ==
  [r \in Dom(observations) |-> Density(dist, observations[r])]

-----------------------------------------------------------------------------
(* LogLikelihood and the loop guard.                                       *)

\* accu(likelihoods.col(j)): the mixture density of point j
MixtureDensity(observations, dists, weights, j) ==
  Accu([i \in Dom(dists) |-> Mul(weights[i], Probability(dists[i], observations)[j])])

RECURSIVE Product(_)
Product(s) == IF s = << >> THEN One ELSE Mul(Product(SubSeq(s, 1, Len(s) - 1)), s[Len(s)])

\* LogLikelihood leaving the points of mixture density 0 out of the sum
LogLikelihoodSkippingZeros(observations, dists, weights) ==
  LET a == [j \in Dom(observations) |-> MixtureDensity(observations, dists, weights, j)]
      b == [j \in Dom(a) |-> IF a[j] = Zero THEN One ELSE a[j]]
  IN  [kind |-> "log",
       of |-> IF \E j \in Dom(a) : Gt(Zero, a[j]) THEN NaN ELSE Product(b)]

\* The likelihood whose logarithm LogLikelihood returns.  log of a negative
\* number is NaN; log(0) = -inf is carried by the likelihood 0.
LogLikelihood(observations, dists, weights) ==
  LET a == [j \in Dom(observations) |-> MixtureDensity(observations, dists, weights, j)]
  IN  [kind |-> "log",
       of |-> IF \E j \in Dom(a) : Gt(Zero, a[j]) THEN NaN ELSE Product(a)]

\* the points LogLikelihood reports: accu(likelihoods.col(j)) == 0
ZeroDensityPoints(observations, dists, weights) ==
  { j \in Dom(observations) : MixtureDensity(observations, dists, weights, j) = Zero }

\* lOld starting at 0, the logarithm of likelihood 1
StartingAtZero == [kind |-> "log", of |-> One]

\* double lOld = -DBL_MAX
MinusDblMax == [kind |-> "-DBL_MAX", of |-> Zero]

IsLogNaN(l) == l.kind = "log" /\ IsNaN(l.of)
IsLogInf(l) == l.kind = "log" /\ (l.of = Zero \/ l.of = PosInf)

\* ExceedsTolerance with the difference of two equal infinities taken to
\* exceed every tolerance
ExceedsToleranceInfinitiesApart(l, lOld, tolerance) ==
  IF IsLogNaN(l) \/ IsLogNaN(lOld) THEN FALSE
  ELSE IF IsLogInf(l) \/ IsLogInf(lOld) THEN TRUE
  ELSE IF l.kind = "-DBL_MAX" \/ lOld.kind = "-DBL_MAX" THEN l.kind # lOld.kind
  ELSE Gt(Div(l.of, lOld.of), tolerance) \/ Gt(Div(lOld.of, l.of), tolerance)

\* std::abs(l - lOld) > tolerance, for a finite tolerance given as exp(tol)
ExceedsTolerance(l, lOld, tolerance) ==
  IF IsLogNaN(l) \/ IsLogNaN(lOld) THEN FALSE
  ELSE IF IsLogInf(l) \/ IsLogInf(lOld)
    THEN ~(IsLogInf(l) /\ IsLogInf(lOld) /\ l.of = lOld.of)
  ELSE IF l.kind = "-DBL_MAX" \/ lOld.kind = "-DBL_MAX" THEN l.kind # lOld.kind
  ELSE Gt(Div(l.of, lOld.of), tolerance) \/ Gt(Div(lOld.of, l.of), tolerance)

\* std::abs(l - lOld) <= tolerance
WithinTolerance(l, lOld, tolerance) ==
  IF IsLogNaN(l) \/ IsLogNaN(lOld) THEN FALSE
  ELSE IF IsLogInf(l) \/ IsLogInf(lOld) THEN FALSE
  ELSE IF l.kind = "-DBL_MAX" \/ lOld.kind = "-DBL_MAX" THEN l.kind = lOld.kind
  ELSE Le(Div(l.of, lOld.of), tolerance) /\ Le(Div(lOld.of, l.of), tolerance)

-----------------------------------------------------------------------------
(* The E-step.                                                             *)

\* ConditionalProbabilities without the factor weights[i]
ConditionalProbabilitiesUnscaled(observations, dists, weights) ==
  [r \in Dom(observations) |->
     [i \in Dom(dists) |-> Probability(dists[i], observations)[r]]]

\* condProb column i = dists[i].Probability(observations) * weights[i],
\* stored by rows: condProb[r][i]
ConditionalProbabilities(observations, dists, weights) ==
  [r \in Dom(observations) |->
     [i \in Dom(dists) |-> Mul(Probability(dists[i], observations)[r], weights[i])]]

\* one turn of the E-step loop: column i of condProb, as it stands, is
\* overwritten
EStepAt(cp, i, observations, dists, weights) ==
  [r \in Dom(cp) |->
     [cp[r] EXCEPT ![i] = Mul(Probability(dists[i], observations)[r], weights[i])]]

\* the E-step loop taking the components in the given order
RECURSIVE EStepInOrder(_, _, _, _, _)
EStepInOrder(order, cp, observations, dists, weights) ==
  IF order = << >> THEN cp
  ELSE EStepInOrder(Tail(order),
                    EStepAt(cp, Head(order), observations, dists, weights),
                    observations, dists, weights)

\* NormalizeRow without its test of the sum: every row is divided
NormalizeRowUnguarded(row) ==
  LET probSum == Accu(row)
  IN  [i \in Dom(row) |-> Div(row[i], probSum)]

\* one row of "Normalize row-wise": divided by its sum unless the sum is 0
NormalizeRow(row) ==
  LET probSum == Accu(row)
  IN  IF NeZero(probSum) THEN [i \in Dom(row) |-> Div(row[i], probSum)] ELSE row

NormalizeRows(condProb) == [r \in Dom(condProb) |-> NormalizeRow(condProb[r])]

-----------------------------------------------------------------------------
(* The M-step.                                                             *)

\* trans(arma::sum(condProb, 0)): the column sums
ProbRowSums(condProb, K) == [i \in 1 .. K |-> Accu(Col(condProb, i))]

\* accu(condProb.col(i) % probabilities), for every component
WeightedProbRowSums(condProb, probabilities, K) ==
  [i \in 1 .. K |-> Accu(Schur(Col(condProb, i), probabilities))]

\* (observations * w) / mass
WeightedMean(observations, w, mass) ==
  VecDiv(VecSum([r \in Dom(observations) |-> VecScale(observations[r], w[r])],
                Len(observations[1])),
         mass)

\* (tmp * trans(tmpB)) / mass with tmp = observations - mean * ones and
\* tmpB = tmp % (ones * trans(w))
WeightedCovariance(observations, mean, w, mass) ==
  MatDiv(MatSum([r \in Dom(observations) |->
                    LET t == VecSub(observations[r], mean)
                    IN  Outer(t, VecScale(t, w[r]))],
                Len(observations[1])),
         mass)

\* UpdateComponent without its tests of probRowSums[i]
UpdateComponentUnguarded(dist, observations, col, probRowSum, constraint) ==
  LET mean == WeightedMean(observations, col, probRowSum)
  IN  [Mean |-> mean,
       Covariance |->
         ApplyConstraint(constraint,
                         WeightedCovariance(observations, mean, col, probRowSum))]

\* UpdateComponent with the covariance centred on the mean of the previous
\* iteration
UpdateComponentStaleMean(dist, observations, col, probRowSum, constraint) ==
  [Mean |-> IF NeZero(probRowSum)
              THEN WeightedMean(observations, col, probRowSum)
              ELSE dist.Mean,
   Covariance |->
     IF NeZero(probRowSum)
       THEN ApplyConstraint(constraint,
                            WeightedCovariance(observations, dist.Mean, col, probRowSum))
       ELSE dist.Covariance]

\* the body of the M-step loop of the unweighted overload, for one component
UpdateComponent(dist, observations, col, probRowSum, constraint) ==
  LET mean == IF NeZero(probRowSum)
                THEN WeightedMean(observations, col, probRowSum)
                ELSE dist.Mean
  IN  [Mean |-> mean,
       Covariance |->
         IF NeZero(probRowSum)
           THEN ApplyConstraint(constraint,
                                WeightedCovariance(observations, mean, col, probRowSum))
           ELSE dist.Covariance]

\* UpdateComponentWeighted storing the covariance as it was computed
UpdateComponentWeightedUnconstrained(dist, observations, col, probRowSum, constraint) ==
  LET mean == WeightedMean(observations, col, probRowSum)
  IN  [Mean |-> mean,
       Covariance |-> WeightedCovariance(observations, mean, col, probRowSum)]

\* the body of the M-step loop of the weighted overload, for one component
UpdateComponentWeighted(dist, observations, col, probRowSum, constraint) ==
  LET mean == WeightedMean(observations, col, probRowSum)
  IN  [Mean |-> mean,
       Covariance |->
         ApplyConstraint(constraint,
                         WeightedCovariance(observations, mean, col, probRowSum))]

\* NewWeights renormalising the masses instead of dividing by the total
NewWeightsRenormalized(probRowSums, total) ==
  [i \in Dom(probRowSums) |-> Div(probRowSums[i], Accu(probRowSums))]

\* MStepAt falling back on the first component, as it stands, where the
\* component's own parameters are to be kept
MStepAtChained(ds, i, observations, cp, probabilities, constraint, overload) ==
  [ds EXCEPT ![i] =
     IF overload = "weighted"
       THEN UpdateComponentWeighted(ds[1], observations,
                                    Schur(Col(cp, i), probabilities),
                                    Accu(Schur(Col(cp, i), probabilities)), constraint)
       ELSE UpdateComponent(ds[1], observations, Col(cp, i), Accu(Col(cp, i)),
                            constraint)]

\* one turn of the M-step loop: component i of the vector of components, as
\* it stands, is updated in place
MStepAt(ds, i, observations, cp, probabilities, constraint, overload) ==
  [ds EXCEPT ![i] =
     IF overload = "weighted"
       THEN UpdateComponentWeighted(ds[i], observations,
                                    Schur(Col(cp, i), probabilities),
                                    Accu(Schur(Col(cp, i), probabilities)), constraint)
       ELSE UpdateComponent(ds[i], observations, Col(cp, i), Accu(Col(cp, i)),
                            constraint)]

\* the M-step loop taking the components in the given order
RECURSIVE MStepInOrder(_, _, _, _, _, _, _)
MStepInOrder(order, ds, observations, cp, probabilities, constraint, overload) ==
  IF order = << >> THEN ds
  ELSE MStepInOrder(Tail(order),
                    MStepAt(ds, Head(order), observations, cp, probabilities,
                            constraint, overload),
                    observations, cp, probabilities, constraint, overload)

\* weights = probRowSums / observations.n_cols
NewWeights(probRowSums, total) == [i \in Dom(probRowSums) |-> Div(probRowSums[i], total)]

-----------------------------------------------------------------------------
(* InitialClustering.                                                      *)

\* ClampedCount without the clamp: the divisor is the count itself
ClampedCountUnclamped(w) == w

\* (weights[i] > 1) ? weights[i] : 1
ClampedCount(w) == IF Gt(w, One) THEN w ELSE One

\* the points assigned to a cluster, in index order
RECURSIVE Assigned(_, _, _)
Assigned(observations, assignments, cluster) ==
  IF observations = << >> THEN << >>
  ELSE LET n == Len(observations)
           rest == Assigned(SubSeq(observations, 1, n - 1),
                            SubSeq(assignments, 1, n - 1), cluster)
       IN  IF assignments[n] = cluster THEN Append(rest, observations[n]) ELSE rest

\* ClusterCounts without weights.zeros(): the counts are added to what the
\* caller left in weights
ClusterCountsAccumulating(weights, observations, assignments) ==
  [i \in Dom(weights) |->
     Add(weights[i], Int2R(Len(Assigned(observations, assignments, i))))]

\* weights.zeros(), then weights[cluster]++ for every point
ClusterCounts(weights, observations, assignments) ==
  [i \in Dom(weights) |-> Int2R(Len(Assigned(observations, assignments, i)))]

\* means[i]: the sum of the assigned points over the clamped count
ClusterMean(dist, pts, count) ==
  VecDiv(VecSum(pts, Len(dist.Mean)), ClampedCount(count))

\* covs[i]: both accumulation loops add into the same matrix, the first the
\* outer products of the points, the second those of the centred points
ClusterCovariance(dist, pts, mean, count) ==
  LET n == Len(dist.Covariance)
      first == MatSum([r \in Dom(pts) |-> Outer(pts[r], pts[r])], n)
      second == MatSum([r \in Dom(pts) |->
                          LET normObs == VecSub(pts[r], mean)
                          IN  Outer(normObs, normObs)], n)
  IN  MatDiv(MatAdd(first, second), ClampedCount(count))

InitialComponents(observations, dists, counts, assignments, constraint) ==
  [i \in Dom(dists) |->
     LET pts == Assigned(observations, assignments, i)
         mean == ClusterMean(dists[i], pts, counts[i])
     IN  [Mean |-> mean,
          Covariance |->
            ApplyConstraint(constraint,
                            ClusterCovariance(dists[i], pts, mean, counts[i]))]]

\* InitialWeights without the division: the counts are left as the weights
InitialWeightsUnnormalized(counts) == counts

\* weights /= accu(weights)
InitialWeights(counts) == [i \in Dom(counts) |-> Div(counts[i], Accu(counts))]

-----------------------------------------------------------------------------
(* The diagonal learner behind ArmadilloGMMWrapper (arma::gmm_diag).       *)

Diag(cov) == [a \in Dom(cov) |-> cov[a][a]]
DiagMat(v) == [a \in Dom(v) |-> [b \in Dom(v) |-> IF a = b THEN v[a] ELSE Zero]]

\* the learner's update of one component: a component without mass keeps its
\* parameters, any other gets the weighted mean and the weighted variances
LearnUpdate(dist, observations, col, sum) ==
  IF NeZero(sum)
    THEN LET mean == WeightedMean(observations, col, sum)
         IN  [Mean |-> mean,
              Covariance |->
                DiagMat(Diag(WeightedCovariance(observations, mean, col, sum)))]
    ELSE dist

\* one EM iteration of the learner on diagonal covariances
LearnStep(observations, m) ==
  LET cp == NormalizeRows(ConditionalProbabilities(observations, m.dists, m.weights))
      sums == ProbRowSums(cp, Len(m.dists))
  IN  [dists |-> [i \in Dom(m.dists) |->
                    LearnUpdate(m.dists[i], observations, Col(cp, i), sums[i])],
       weights |-> NewWeights(sums, Int2R(Len(observations)))]

\* the learner's own convergence test between two EM iterations, with the
\* tolerance it was handed
LearnChanged(observations, m, next, tolerance) ==
  ExceedsTolerance(LogLikelihood(observations, next.dists, next.weights),
                   LogLikelihood(observations, m.dists, m.weights), tolerance)

\* KeepExisting handing the learner the covariances whole
KeepExistingWhole(dists, weights) == [dists |-> dists, weights |-> weights]

\* g.set_params(means, covs, weights.t()) with covs.col(i) = Covariance().diag()
KeepExisting(dists, weights) ==
  [dists |-> [i \in Dom(dists) |->
                [Mean |-> dists[i].Mean,
                 Covariance |-> DiagMat(Diag(dists[i].Covariance))]],
   weights |-> weights]

\* arma::static_subset: the learner seeds itself from a fixed subset of the
\* observations, with unit variances and equal weights
StaticSubset(observations, K) ==
  [dists |-> [i \in 1 .. K |->
                [Mean |-> observations[1 + ((i - 1) * (Len(observations) \div K))],
                 Covariance |-> DiagMat([a \in Dom(observations[1]) |-> One])]],
   weights |-> [i \in 1 .. K |-> Rat(1, K)]]

-----------------------------------------------------------------------------
(* Inputs.                                                                 *)

\* the largest maxIterations a call is made with
MaxIterationsCap == 3

\* the most E/M passes of one call that are followed (maxIterations = 0
\* leaves the loop to the convergence test alone)
MaxPasses == 3

Pt(x, y) == << Int2R(x), Int2R(y) >>
Identity2 == << << One, Zero >>, << Zero, One >> >>
Correlated2 == << << Int2R(2), One >>, << One, Int2R(2) >> >>

\* two observation sets of three points; (5,0) is an outlier of the second
ObsSpread == << Pt(0, 0), Pt(2, 0), Pt(0, 4) >>
ObsOutlier == << Pt(0, 0), Pt(0, 1), Pt(5, 0) >>
ObservationSets == { ObsSpread, ObsOutlier }

\* caller-supplied models: K = 2 components and their mixing weights
ModelNear ==
  [dists |-> << [Mean |-> Pt(0, 0), Covariance |-> Identity2],
                [Mean |-> Pt(0, 1), Covariance |-> Identity2] >>,
   weights |-> << Rat(1, 2), Rat(1, 2) >>]
ModelApart ==
  [dists |-> << [Mean |-> Pt(0, 0), Covariance |-> Identity2],
                [Mean |-> Pt(1, 4), Covariance |-> Identity2] >>,
   weights |-> << Rat(1, 2), Rat(1, 2) >>]
ModelFar ==
  [dists |-> << [Mean |-> Pt(0, 0), Covariance |-> Identity2],
                [Mean |-> Pt(9, 9), Covariance |-> Correlated2] >>,
   weights |-> << Rat(1, 4), Rat(3, 4) >>]
Models == { ModelNear, ModelApart, ModelFar }

\* a caller-supplied model whose second component reaches the point (0,0)
\* with its full covariance and not with the diagonal of it alone
ModelTilted ==
  [dists |-> << [Mean |-> Pt(0, 0), Covariance |-> Identity2],
                [Mean |-> Pt(4, 3), Covariance |-> Correlated2] >>,
   weights |-> << Rat(1, 2), Rat(1, 2) >>]

\* a caller-supplied model whose first component reaches every point of
\* ObsSpread and whose second reaches none
ModelLone ==
  [dists |-> << [Mean |-> Pt(1, 2), Covariance |-> Identity2],
                [Mean |-> Pt(9, 9), Covariance |-> Identity2] >>,
   weights |-> << Rat(1, 2), Rat(1, 2) >>]

\* the model with every off-diagonal entry of its covariances set to 0
Diagonalized(model) ==
  [dists |-> [i \in Dom(model.dists) |->
                [Mean |-> model.dists[i].Mean,
                 Covariance |-> DiagMat(Diag(model.dists[i].Covariance))]],
   weights |-> model.weights]

\* exp(tolerance) for tolerance = 0 and tolerance = log 8
Tolerances == { One, Int2R(8) }

\* external point weights of the weighted overload
PointWeights == { << One, One, One >>, << One, Zero, Int2R(2) >>,
                  << Zero, Zero, One >>, << Zero, Zero, Zero >> }

Unweighted == "unweighted"
Weighted == "weighted"

\* One Estimate call: the engine's configuration (EMFit's members and template
\* arguments), the call's arguments, what the clusterer does when it is
\* called (it returns the assignments or it fails) and whether the log sink
\* prints.  Inputs a call never reads are fixed.
Configs ==
  { c \in [overload : {Unweighted, Weighted},
           constraint : {"none", "diagonal"},
           defaultClusterer : BOOLEAN,
           useInitialModel : BOOLEAN,
           maxIterations : 0 .. MaxIterationsCap,
           tolerance : Tolerances,
           observations : ObservationSets,
           probabilities : PointWeights,
           assignments : [1 .. 3 -> 1 .. 2],
           clustererFails : BOOLEAN,
           verbose : { TRUE },
           model : Models] :
      /\ c.overload = Unweighted => c.probabilities = << One, One, One >>
      /\ (c.overload = Weighted \/ c.constraint = "none" \/ c.useInitialModel)
           => c.defaultClusterer
      /\ c.useInitialModel => c.assignments = << 1, 1, 1 >>
      /\ ~c.useInitialModel => c.model = ModelNear
      /\ c.clustererFails =>
           /\ ~c.useInitialModel
           /\ ~(c.overload = Unweighted /\ c.constraint = "diagonal"
                  /\ c.defaultClusterer)
           /\ c.assignments = << 1, 1, 1 >> }

-----------------------------------------------------------------------------
(* The state: Estimate calls, each on its own model instance.  Every       *)
(* variable but the last is a function of the call.                        *)

Calls == { 1, 2, 3 }

VARIABLES
  pc,            \* where the call stands
  cfg,           \* the engine's configuration and the call's arguments
  dists,         \* std::vector<GaussianDistribution>& dists
  weights,       \* arma::vec& weights
  condProb,      \* arma::mat condProb, by rows
  probRowSums,   \* arma::vec probRowSums
  l,             \* double l
  lOld,          \* double lOld
  iteration,     \* size_t iteration
  passes,        \* history: completed E/M passes
  clusterCalls,  \* history: calls of clusterer.Cluster
  likelihoodCalls, \* history: calls of LogLikelihood
  g,             \* arma::gmm_diag g: its parameters and its EM iteration count
  learnCalls,    \* history: calls of g.learn
  rawProb,       \* history: condProb before the row normalisation
  before,        \* history: dists and weights before the latest M-step
  diagnostics,   \* history: "Likelihood of point j is 0!" lines printed
  overlapped     \* history: a call took a step inside another call's run

vars == << pc, cfg, dists, weights, condProb, probRowSums, l, lOld, iteration, g,
           passes, clusterCalls, likelihoodCalls, learnCalls, rawProb, before,
           diagnostics, overlapped >>

K(c) == Len(dists[c])
N(c) == Len(cfg[c].observations)

\* TakesWrapper with the shortcut taken by both overloads
TakesWrapperEitherOverload(config) == config.constraint = "diagonal"

\* std::is_same<CovarianceConstraintPolicy, DiagonalConstraint>::value, in
\* the unweighted overload only
TakesWrapper(config) == config.overload = Unweighted /\ config.constraint = "diagonal"

\* contents of a freshly allocated arma::mat: unspecified, and overwritten by
\* the E-step before anything reads them
Unset(n, k) == [r \in 1 .. n |-> [i \in 1 .. k |-> NaN]]

\* arma::gmm_diag g; before reset() and set_params()
EmptyLearner == [dists |-> << >>, weights |-> << >>, iter |-> 0, changed |-> TRUE]

\* the call the caller makes by itself, after every other call has returned
Sequential == { 3 }

\* the state when the calls in `made` are about to be entered with the
\* configurations and arguments `configs`
InitCalls(configs, made) ==
  /\ cfg = configs
  /\ pc = [c \in Calls |-> IF c \notin made THEN "idle"
                            ELSE IF c \in Sequential THEN "alone"
                            ELSE "enter"]
  /\ dists = [c \in Calls |-> configs[c].model.dists]
  /\ weights = [c \in Calls |-> configs[c].model.weights]
  /\ condProb = [c \in Calls |-> Unset(3, 2)]
  /\ rawProb = [c \in Calls |-> Unset(3, 2)]
  /\ probRowSums = [c \in Calls |-> << Zero, Zero >>]
  /\ l = [c \in Calls |-> MinusDblMax]
  /\ lOld = [c \in Calls |-> MinusDblMax]
  /\ iteration = [c \in Calls |-> 0]
  /\ g = [c \in Calls |-> EmptyLearner]
  /\ passes = [c \in Calls |-> 0]
  /\ clusterCalls = [c \in Calls |-> 0]
  /\ likelihoodCalls = [c \in Calls |-> 0]
  /\ learnCalls = [c \in Calls |-> 0]
  /\ before = [c \in Calls |-> configs[c].model]
  /\ diagnostics = [c \in Calls |-> 0]
  /\ overlapped = FALSE

\* WrapperEntry without the call of InitialClustering
WrapperEntryNeverClustering(config) == "learn"

\* where ArmadilloGMMWrapper goes first: the clusterer seeds the model only
\* when it is not the default k-means and no initial model is given
WrapperEntry(config) ==
  IF ~config.defaultClusterer \/ config.useInitialModel
    THEN (IF ~config.useInitialModel THEN "cluster" ELSE "learn")
    ELSE "learn"

\* EntryPoint with the test of useInitialModel lost on the generic path
EntryPointAlwaysClustering(config) ==
  IF TakesWrapper(config) THEN WrapperEntry(config) ELSE "cluster"

\* where Estimate goes first: the wrapper under the diagonal constraint,
\* otherwise InitialClustering unless the caller's model is the start
EntryPoint(config) ==
  IF TakesWrapper(config) THEN WrapperEntry(config)
  ELSE IF ~config.useInitialModel THEN "cluster"
  ELSE "likelihood"

\* Estimate is entered; the sequential call only when no other call is left
\* to run
Enter(c) ==
  /\ \/ pc[c] = "enter"
     \/ pc[c] = "alone"
          /\ \A d \in Calls \ { c } : pc[d] \in { "idle", "done", "failed" }
  /\ pc' = [pc EXCEPT ![c] = EntryPoint(cfg[c])]
  /\ UNCHANGED << cfg, dists, weights, condProb, probRowSums, l, lOld, iteration,
                  g, passes, clusterCalls, likelihoodCalls, learnCalls, rawProb, before >>

\* ClusterThrows with the clusterer called after weights.zeros()
ClusterThrowsAfterZeroing(c) ==
  /\ pc[c] = "cluster"
  /\ cfg[c].clustererFails
  /\ clusterCalls' = [clusterCalls EXCEPT ![c] = @ + 1]
  /\ weights' = [weights EXCEPT ![c] = ZeroVec(K(c))]
  /\ pc' = [pc EXCEPT ![c] = "failed"]
  /\ UNCHANGED << cfg, dists, condProb, probRowSums, l, lOld, iteration, g,
                  passes, likelihoodCalls, learnCalls, rawProb, before >>

\* clusterer.Cluster(...) fails: nothing in Estimate or InitialClustering
\* catches, so the failure leaves both and reaches the caller
ClusterThrows(c) ==
  /\ pc[c] = "cluster"
  /\ cfg[c].clustererFails
  /\ clusterCalls' = [clusterCalls EXCEPT ![c] = @ + 1]
  /\ pc' = [pc EXCEPT ![c] = "failed"]
  /\ UNCHANGED << cfg, dists, weights, condProb, probRowSums, l, lOld, iteration, g,
                  passes, likelihoodCalls, learnCalls, rawProb, before >>

\* InitialClustering(observations, dists, weights)
InitialClustering(c) ==
  /\ pc[c] = "cluster"
  /\ ~cfg[c].clustererFails
  /\ LET counts == ClusterCounts(weights[c], cfg[c].observations, cfg[c].assignments)
     IN  /\ dists' = [dists EXCEPT ![c] =
                        InitialComponents(cfg[c].observations, dists[c], counts,
                                          cfg[c].assignments, cfg[c].constraint)]
         /\ weights' = [weights EXCEPT ![c] = InitialWeights(counts)]
  /\ clusterCalls' = [clusterCalls EXCEPT ![c] = @ + 1]
  /\ pc' = [pc EXCEPT ![c] = IF TakesWrapper(cfg[c]) THEN "learn" ELSE "likelihood"]
  /\ UNCHANGED << cfg, condProb, probRowSums, l, lOld, iteration, g, passes,
                  likelihoodCalls, learnCalls, rawProb, before >>

\* double l = LogLikelihood(...); double lOld = -DBL_MAX;
\* arma::mat condProb(...); size_t iteration = 1;
InitialLikelihood(c) ==
  /\ pc[c] = "likelihood"
  /\ l' = [l EXCEPT ![c] = LogLikelihood(cfg[c].observations, dists[c], weights[c])]
  /\ lOld' = [lOld EXCEPT ![c] = MinusDblMax]
  /\ condProb' = [condProb EXCEPT ![c] = Unset(N(c), K(c))]
  /\ iteration' = [iteration EXCEPT ![c] = 1]
  /\ likelihoodCalls' = [likelihoodCalls EXCEPT ![c] = @ + 1]
  /\ pc' = [pc EXCEPT ![c] = "while"]
  /\ UNCHANGED << cfg, dists, weights, probRowSums, g, passes, clusterCalls,
                  learnCalls, rawProb, before >>

\* LoopCondition with an inclusive iteration cap
LoopConditionInclusive(c) ==
  /\ ExceedsTolerance(l[c], lOld[c], cfg[c].tolerance)
  /\ iteration[c] # cfg[c].maxIterations + 1

\* LoopCondition as if the counter had started at 0
LoopConditionFromZero(c) ==
  /\ ExceedsTolerance(l[c], lOld[c], cfg[c].tolerance)
  /\ iteration[c] - 1 # cfg[c].maxIterations

\* LoopCondition with the cap tested by < instead of !=
LoopConditionLess(c) ==
  /\ ExceedsTolerance(l[c], lOld[c], cfg[c].tolerance)
  /\ iteration[c] < cfg[c].maxIterations

\* LoopCondition with || for &&
LoopConditionEither(c) ==
  \/ ExceedsTolerance(l[c], lOld[c], cfg[c].tolerance)
  \/ iteration[c] # cfg[c].maxIterations

\* std::abs(l - lOld) > tolerance && iteration != maxIterations
LoopCondition(c) ==
  /\ ExceedsTolerance(l[c], lOld[c], cfg[c].tolerance)
  /\ iteration[c] # cfg[c].maxIterations

\* the while test: into the body, or out of Estimate
LoopTest(c) ==
  /\ pc[c] = "while"
  /\ LoopCondition(c) => passes[c] < MaxPasses
  /\ pc' = [pc EXCEPT ![c] = IF LoopCondition(c) THEN "estep" ELSE "done"]
  /\ UNCHANGED << cfg, dists, weights, condProb, probRowSums, l, lOld, iteration,
                  g, passes, clusterCalls, likelihoodCalls, learnCalls, rawProb, before >>

\* EStep with condProb one buffer for every call
EStepSharedBuffer(c) ==
  /\ pc[c] = "estep"
  /\ condProb' = [d \in Calls |->
                    ConditionalProbabilities(cfg[c].observations, dists[c], weights[c])]
  /\ pc' = [pc EXCEPT ![c] = "normalize"]
  /\ UNCHANGED << cfg, dists, weights, probRowSums, l, lOld, iteration, g, passes,
                  clusterCalls, likelihoodCalls, learnCalls, rawProb, before >>

\* the first loop of the body: the conditional probabilities
EStep(c) ==
  /\ pc[c] = "estep"
  /\ condProb' = [condProb EXCEPT ![c] =
                    ConditionalProbabilities(cfg[c].observations, dists[c], weights[c])]
  /\ pc' = [pc EXCEPT ![c] = "normalize"]
  /\ UNCHANGED << cfg, dists, weights, probRowSums, l, lOld, iteration, g, passes,
                  clusterCalls, likelihoodCalls, learnCalls, rawProb, before >>

\* "Normalize row-wise."
Normalize(c) ==
  /\ pc[c] = "normalize"
  /\ rawProb' = [rawProb EXCEPT ![c] = condProb[c]]
  /\ condProb' = [condProb EXCEPT ![c] = NormalizeRows(condProb[c])]
  /\ pc' = [pc EXCEPT ![c] = "mstep"]
  /\ UNCHANGED << cfg, dists, weights, probRowSums, l, lOld, iteration, g, passes,
                  clusterCalls, likelihoodCalls, learnCalls, before >>

\* probRowSums, the loop over the components and the new weights, of the
\* unweighted overload
MStepUnweighted(c) ==
  LET sums == ProbRowSums(condProb[c], K(c))
  IN  /\ probRowSums' = [probRowSums EXCEPT ![c] = sums]
      /\ dists' = [dists EXCEPT ![c] =
                     [i \in Dom(dists[c]) |->
                        UpdateComponent(dists[c][i], cfg[c].observations,
                                        Col(condProb[c], i), sums[i],
                                        cfg[c].constraint)]]
      /\ weights' = [weights EXCEPT ![c] = NewWeights(sums, Int2R(N(c)))]

\* the same of the weighted overload
MStepWeighted(c) ==
  LET sums == WeightedProbRowSums(condProb[c], cfg[c].probabilities, K(c))
  IN  /\ probRowSums' = [probRowSums EXCEPT ![c] = sums]
      /\ dists' = [dists EXCEPT ![c] =
                     [i \in Dom(dists[c]) |->
                        UpdateComponentWeighted(
                          dists[c][i], cfg[c].observations,
                          Schur(Col(condProb[c], i), cfg[c].probabilities),
                          sums[i], cfg[c].constraint)]]
      /\ weights' = [weights EXCEPT ![c] =
                       NewWeights(sums, Accu(cfg[c].probabilities))]

\* MStep normalising the point weights in place on its way
MStepInPlace(c) ==
  /\ pc[c] = "mstep"
  /\ IF cfg[c].overload = Weighted THEN MStepWeighted(c) ELSE MStepUnweighted(c)
  /\ before' = [before EXCEPT ![c] = [dists |-> dists[c], weights |-> weights[c]]]
  /\ pc' = [pc EXCEPT ![c] = "update"]
  /\ cfg' = [cfg EXCEPT ![c].probabilities =
                NewWeights(cfg[c].probabilities, Accu(cfg[c].probabilities))]
  /\ UNCHANGED << condProb, l, lOld, iteration, g, passes, clusterCalls,
                  likelihoodCalls, learnCalls, rawProb >>

MStep(c) ==
  /\ pc[c] = "mstep"
  /\ IF cfg[c].overload = Weighted THEN MStepWeighted(c) ELSE MStepUnweighted(c)
  /\ before' = [before EXCEPT ![c] = [dists |-> dists[c], weights |-> weights[c]]]
  /\ pc' = [pc EXCEPT ![c] = "update"]
  /\ UNCHANGED << cfg, condProb, l, lOld, iteration, g, passes, clusterCalls,
                  likelihoodCalls, learnCalls, rawProb >>

\* lOld = l; l = LogLikelihood(...); iteration++;
UpdateLikelihood(c) ==
  /\ pc[c] = "update"
  /\ lOld' = [lOld EXCEPT ![c] = l[c]]
  /\ l' = [l EXCEPT ![c] = LogLikelihood(cfg[c].observations, dists[c], weights[c])]
  /\ iteration' = [iteration EXCEPT ![c] = @ + 1]
  /\ passes' = [passes EXCEPT ![c] = @ + 1]
  /\ likelihoodCalls' = [likelihoodCalls EXCEPT ![c] = @ + 1]
  /\ pc' = [pc EXCEPT ![c] = "while"]
  /\ UNCHANGED << cfg, dists, weights, condProb, probRowSums, g, clusterCalls,
                  learnCalls, rawProb, before >>

\* g.set_params(...) and the call of g.learn with arma::keep_existing, or the
\* call of g.learn with arma::static_subset
BeginLearn(c) ==
  /\ pc[c] = "learn"
  /\ g' = [g EXCEPT ![c] =
             LET m == IF ~cfg[c].defaultClusterer \/ cfg[c].useInitialModel
                        THEN KeepExisting(dists[c], weights[c])
                        ELSE StaticSubset(cfg[c].observations, K(c))
             IN  [dists |-> m.dists, weights |-> m.weights, iter |-> 0,
                  changed |-> TRUE]]
  /\ learnCalls' = [learnCalls EXCEPT ![c] = @ + 1]
  /\ pc' = [pc EXCEPT ![c] = "em"]
  /\ UNCHANGED << cfg, dists, weights, condProb, probRowSums, l, lOld, iteration,
                  passes, clusterCalls, likelihoodCalls, rawProb, before >>

\* the wrapper handing the engine's tolerance to the learner
LearnerToleranceConfigured(config) == config.tolerance

\* the tolerance the wrapper hands to g.learn: the literal 1e-10 whatever the
\* engine's tolerance, here exp(0)
LearnerTolerance(config) == One

\* inside g.learn: one more of at most maxIterations EM iterations, unless
\* the last one left the likelihood unchanged
LearnIterate(c) ==
  /\ pc[c] = "em"
  /\ IF g[c].iter < cfg[c].maxIterations /\ g[c].changed
       THEN LET next == LearnStep(cfg[c].observations, g[c])
            IN  /\ g' = [g EXCEPT ![c] =
                           [dists |-> next.dists, weights |-> next.weights,
                            iter |-> g[c].iter + 1,
                            changed |-> LearnChanged(cfg[c].observations, g[c], next,
                                                     LearnerTolerance(cfg[c]))]]
                /\ pc' = pc
       ELSE /\ pc' = [pc EXCEPT ![c] = "extract"]
            /\ g' = g
  /\ UNCHANGED << cfg, dists, weights, condProb, probRowSums, l, lOld, iteration,
                  passes, clusterCalls, likelihoodCalls, learnCalls, rawProb, before >>

\* "Extract means, covariances, and weights."
Extract(c) ==
  /\ pc[c] = "extract"
  /\ weights' = [weights EXCEPT ![c] = g[c].weights]
  /\ dists' = [dists EXCEPT ![c] =
                 [i \in Dom(dists[c]) |->
                    [Mean |-> g[c].dists[i].Mean,
                     Covariance |-> DiagMat(Diag(g[c].dists[i].Covariance))]]]
  /\ pc' = [pc EXCEPT ![c] = "done"]
  /\ UNCHANGED << cfg, condProb, probRowSums, l, lOld, iteration, g, passes,
                  clusterCalls, likelihoodCalls, learnCalls, rawProb, before >>

\* the call has been entered and has not returned
InFlight(c) == pc[c] \notin { "idle", "enter", "alone", "done", "failed" }

\* the step of call c is recorded when it falls inside another call's run
Track(c) ==
  overlapped' = (overlapped \/ (InFlight(c) /\ \E d \in Calls \ { c } : InFlight(d)))

\* inside LogLikelihood: a line is printed for every point of mixture
\* density 0, if the log sink prints
Report(c) ==
  diagnostics' =
    [diagnostics EXCEPT ![c] =
       IF cfg[c].verbose
         THEN @ + Cardinality(ZeroDensityPoints(cfg[c].observations, dists[c],
                                                weights[c]))
         ELSE @]

Quiet == UNCHANGED diagnostics

Step(c) ==
  \/ Enter(c) /\ Track(c) /\ Quiet
  \/ ClusterThrows(c) /\ Track(c) /\ Quiet
  \/ InitialClustering(c) /\ Track(c) /\ Quiet
  \/ InitialLikelihood(c) /\ Track(c) /\ Report(c)
  \/ LoopTest(c) /\ Track(c) /\ Quiet
  \/ EStep(c) /\ Track(c) /\ Quiet
  \/ Normalize(c) /\ Track(c) /\ Quiet
  \/ MStep(c) /\ Track(c) /\ Quiet
  \/ UpdateLikelihood(c) /\ Track(c) /\ Report(c)
  \/ BeginLearn(c) /\ Track(c) /\ Quiet
  \/ LearnIterate(c) /\ Track(c) /\ Quiet
  \/ Extract(c) /\ Track(c) /\ Quiet

Next == \E c \in Calls : Step(c)

\* the arguments of a call that is not made: it stays "idle"
NoCall == [overload |-> Unweighted, constraint |-> "none", defaultClusterer |-> TRUE,
           useInitialModel |-> TRUE, maxIterations |-> 1, tolerance |-> One,
           observations |-> ObsSpread, probabilities |-> << One, One, One >>,
           assignments |-> << 1, 1, 1 >>, clustererFails |-> FALSE,
           verbose |-> TRUE, model |-> ModelNear]

\* the calls on an initial model, made on ModelLone
LoneConfigs ==
  { [c EXCEPT !.model = ModelLone] :
      c \in { x \in Configs : x.useInitialModel /\ x.model = ModelNear } }

\* one call, with any configuration and arguments
Init ==
  \E config \in Configs \cup LoneConfigs :
    InitCalls([c \in Calls |-> IF c = 1 THEN config ELSE NoCall], { 1 })

Spec == Init /\ [][Next]_vars

\* Two calls on two model instances, interleaved step by step.  They have the
\* same engine, observations and arguments, no initial model, and each its
\* own incoming contents of dists and weights.
PairConfigs ==
  { c \in Configs :
      /\ ~c.useInitialModel
      /\ c.maxIterations = MaxIterationsCap
      /\ c.tolerance = One
      /\ c.probabilities \in { << One, One, One >>, << One, Zero, Int2R(2) >> }
      /\ c.assignments \in { << 1, 1, 1 >>, << 1, 1, 2 >>, << 1, 2, 2 >> } }

InitPair ==
  \E config \in PairConfigs : \E incoming \in Models :
    InitCalls([c \in Calls |->
                 IF c = 1 THEN config
                 ELSE IF c = 2 THEN [config EXCEPT !.model = incoming]
                 ELSE NoCall],
              { 1, 2 })

SpecPair == InitPair /\ [][Next]_vars

\* Two calls that differ in one argument, interleaved step by step, and a
\* third call with the arguments of one of them, made by itself afterwards.
\* The second call is the weighted overload with every point weight 1 where
\* the first is the unweighted overload on an initial model, or it has
\* another tolerance, or its log sink does not print, or its initial model
\* has the covariances of the first one's without their off-diagonal entries.
TwinConfigs ==
  { << x, [x EXCEPT !.overload = Weighted] >> :
      x \in { c \in Configs : /\ c.overload = Unweighted /\ c.useInitialModel
                               /\ c.tolerance = One } }
  \cup
  { << x, [x EXCEPT !.tolerance = Int2R(8)] >> :
      x \in { c \in Configs : /\ c.overload = Unweighted /\ c.tolerance = One
                               /\ c.assignments \in { << 1, 1, 1 >>, << 1, 1, 2 >>,
                                                      << 1, 2, 2 >> } } }
  \cup
  { << x, [x EXCEPT !.verbose = FALSE] >> :
      x \in { c \in Configs : /\ c.useInitialModel /\ c.constraint = "none"
                               /\ c.tolerance = One
                               /\ c.observations = ObsOutlier
                               /\ c.probabilities[1] = One } }
  \cup
  { << [x EXCEPT !.model = ModelTilted],
       [x EXCEPT !.model = Diagonalized(ModelTilted)] >> :
      x \in { c \in Configs : /\ TakesWrapper(c) /\ c.useInitialModel
                               /\ c.model = ModelNear /\ c.tolerance = One } }

InitTwin ==
  \E twin \in TwinConfigs : \E again \in { 1, 2 } :
    InitCalls([c \in Calls |-> IF c \in Sequential THEN twin[again] ELSE twin[c]],
              Calls)

SpecTwin == InitTwin /\ [][Next]_vars

-----------------------------------------------------------------------------
(* Properties.                                                             *)

\* the call runs the generic E/M loop of Estimate
Generic(c) == ~TakesWrapper(cfg[c])

\* the call stands inside the body of the while loop
InBody(c) == pc[c] \in { "estep", "normalize", "mstep", "update" }

\* the call stands right after an M-step
AfterMStep(c) == pc[c] = "update"

Returned(c) == Generic(c) /\ pc[c] = "done"

Components(c) == Dom(dists[c])

\* what InitialClustering makes of the observations and the assignments
Seeded(config) ==
  LET counts == [i \in Dom(config.model.weights) |->
                   Int2R(Len(Assigned(config.observations, config.assignments, i)))]
  IN  [dists |-> InitialComponents(config.observations, config.model.dists, counts,
                                   config.assignments, config.constraint),
       weights |-> InitialWeights(counts)]

Current(c) == [dists |-> dists[c], weights |-> weights[c]]

\* C1: after every completed M-step of the generic path, in either overload,
\* every mixing weight is >= 0 and the mixing weights sum to 1.
C1_MixingWeightsSumToOne ==
  \A c \in Calls :
    AfterMStep(c) =>
      /\ \A k \in Components(c) : Le(Zero, weights[c][k])
      /\ Accu(weights[c]) = One

\* C2: in the unweighted overload a component whose effective mass (the sum
\* of its responsibility column) is 0 keeps its mean and covariance through
\* the M-step, and every other component gets the weighted mean and the
\* constrained weighted covariance of this iteration.
C2_ZeroMassFrozen ==
  \A c \in Calls :
    (AfterMStep(c) /\ cfg[c].overload = Unweighted) =>
      \A k \in Components(c) :
        LET col == Col(condProb[c], k)
            mass == Accu(col)
        IN  /\ probRowSums[c][k] = mass
            /\ mass = Zero => dists[c][k] = before[c].dists[k]
            /\ mass # Zero =>
                 /\ dists[c][k].Mean = WeightedMean(cfg[c].observations, col, mass)
                 /\ dists[c][k].Covariance =
                      ApplyConstraint(cfg[c].constraint,
                                      WeightedCovariance(cfg[c].observations,
                                                         dists[c][k].Mean, col, mass))

C2_Witness ==
  \E c \in Calls :
    /\ AfterMStep(c) /\ cfg[c].overload = Unweighted
    /\ \E k, j \in Components(c) :
         /\ probRowSums[c][k] = Zero
         /\ dists[c][k] = before[c].dists[k]
         /\ probRowSums[c][j] # Zero
         /\ dists[c][j] # before[c].dists[j]

\* C3: in the weighted overload a component whose effective mass (the sum
\* over the points of responsibility times point weight) is 0 keeps its mean
\* and covariance through the M-step, and nothing is divided by zero.
C3_WeightedZeroMassFrozen ==
  \A c \in Calls :
    (AfterMStep(c) /\ cfg[c].overload = Weighted) =>
      \A k \in Components(c) :
        probRowSums[c][k] = Zero =>
          /\ dists[c][k] = before[c].dists[k]
          /\ ~HasNaNVec(dists[c][k].Mean)

\* C4: after the row normalisation every row of condProb sums to 1, or is
\* entirely zero and is the row the E-step wrote, untouched: a row whose sum
\* is 0 is not divided.
C4_RowsNormalized ==
  \A c \in Calls :
    pc[c] = "mstep" =>
      \A r \in Dom(condProb[c]) :
        IF Accu(rawProb[c][r]) = Zero
          THEN /\ condProb[c][r] = rawProb[c][r]
               /\ \A i \in Dom(condProb[c][r]) : condProb[c][r][i] = Zero
          ELSE /\ Accu(condProb[c][r]) = One
               /\ \A i \in Dom(condProb[c][r]) :
                    condProb[c][r][i] = Div(rawProb[c][r][i], Accu(rawProb[c][r]))

C4_Witness ==
  \E c \in Calls :
    /\ pc[c] = "mstep"
    /\ \E r \in Dom(condProb[c]) :
         /\ Accu(rawProb[c][r]) = Zero
         /\ \A i \in Dom(condProb[c][r]) : condProb[c][r][i] = Zero
    /\ \E r \in Dom(condProb[c]) :
         /\ Accu(condProb[c][r]) = One
         /\ condProb[c][r] # rawProb[c][r]

\* C5: with maxIterations >= 1 the generic loop makes at most
\* maxIterations - 1 passes and 1 <= iteration <= maxIterations throughout;
\* the bound on the passes that are followed never holds such a call back,
\* so the call goes on to its return: the loop terminates.
C5_IterationBounded ==
  \A c \in Calls :
    (Generic(c) /\ cfg[c].maxIterations >= 1) =>
      /\ (pc[c] = "while" \/ InBody(c) \/ (pc[c] = "done" /\ likelihoodCalls[c] > 0)) =>
           /\ 1 <= iteration[c]
           /\ iteration[c] <= cfg[c].maxIterations
           /\ passes[c] = iteration[c] - 1
      /\ passes[c] <= cfg[c].maxIterations - 1
      /\ (pc[c] = "while" /\ LoopCondition(c)) => passes[c] < MaxPasses

C5_Witness ==
  \E c \in Calls :
    /\ Returned(c)
    /\ cfg[c].maxIterations >= 3
    /\ passes[c] = cfg[c].maxIterations - 1
    /\ iteration[c] = cfg[c].maxIterations
    /\ ExceedsTolerance(l[c], lOld[c], cfg[c].tolerance)

\* C6: with maxIterations = 1 the body of the generic loop is never entered,
\* and the model returned is the seed: what InitialClustering made when
\* useInitialModel is false, the caller's model when it is true, whatever
\* the tolerance.
C6_MaxIterationsOneReturnsSeed ==
  \A c \in Calls :
    (Generic(c) /\ cfg[c].maxIterations = 1) =>
      /\ ~InBody(c)
      /\ passes[c] = 0
      /\ pc[c] = "done" =>
           /\ likelihoodCalls[c] = 1
           /\ Current(c) = IF cfg[c].useInitialModel THEN cfg[c].model
                           ELSE Seeded(cfg[c])

C6_Witness ==
  \E c \in Calls :
    /\ Returned(c)
    /\ cfg[c].maxIterations = 1
    /\ ~cfg[c].useInitialModel
    /\ cfg[c].tolerance # One
    /\ Current(c) = Seeded(cfg[c])
    /\ Current(c) # cfg[c].model
    /\ ExceedsTolerance(l[c], lOld[c], cfg[c].tolerance)

\* C7: with maxIterations = 0 the cap never ends the generic loop: at every
\* test of the guard iteration >= 1, so iteration != maxIterations, and the
\* call returns only when the convergence test fails.
C7_ZeroMaxIterationsNeverCaps ==
  \A c \in Calls :
    (Generic(c) /\ cfg[c].maxIterations = 0) =>
      /\ pc[c] = "while" =>
           /\ iteration[c] >= 1
           /\ iteration[c] # cfg[c].maxIterations
           /\ LoopCondition(c) = ExceedsTolerance(l[c], lOld[c], cfg[c].tolerance)
      /\ pc[c] = "done" => ~ExceedsTolerance(l[c], lOld[c], cfg[c].tolerance)

C7_Witness ==
  \E c \in Calls :
    /\ Returned(c)
    /\ cfg[c].maxIterations = 0
    /\ passes[c] >= 2
    /\ ~ExceedsTolerance(l[c], lOld[c], cfg[c].tolerance)

\* C8 as claimed: Estimate returns from the generic loop only when the last
\* likelihood change is <= tolerance or the counter equals maxIterations.
C8_ReturnsOnlyWithinTolerance ==
  \A c \in Calls :
    Returned(c) =>
      \/ WithinTolerance(l[c], lOld[c], cfg[c].tolerance)
      \/ iteration[c] = cfg[c].maxIterations

\* C8 as amended: a pass runs exactly when |l - lOld| > tolerance and
\* iteration != maxIterations, with l the likelihood of the present model and
\* lOld the one before the previous pass; so Estimate returns only when the
\* comparison |l - lOld| > tolerance is false (the change is <= tolerance, or
\* it is NaN) or the counter equals maxIterations.
C8_LoopGuard ==
  \A c \in Calls :
    Generic(c) =>
      /\ InBody(c) => LoopCondition(c)
      /\ InBody(c) =>
           /\ ExceedsTolerance(l[c], lOld[c], cfg[c].tolerance)
           /\ iteration[c] # cfg[c].maxIterations
      /\ pc[c] = "done" =>
           \/ ~ExceedsTolerance(l[c], lOld[c], cfg[c].tolerance)
           \/ iteration[c] = cfg[c].maxIterations
      /\ (pc[c] \in { "while", "done" } /\ likelihoodCalls[c] > 0) =>
           /\ l[c] = LogLikelihood(cfg[c].observations, dists[c], weights[c])
           /\ lOld[c] = IF passes[c] = 0 THEN MinusDblMax
                        ELSE LogLikelihood(cfg[c].observations, before[c].dists,
                                           before[c].weights)

C8_Witness ==
  \E c \in Calls :
    /\ Returned(c)
    /\ passes[c] >= 1
    /\ iteration[c] # cfg[c].maxIterations
    /\ ~ExceedsTolerance(l[c], lOld[c], cfg[c].tolerance)
    /\ ~WithinTolerance(l[c], lOld[c], cfg[c].tolerance)

\* C9 as claimed: every call with useInitialModel = false has called the
\* clusterer exactly once when it returns.
C9_EveryCallClustersOnce ==
  \A c \in Calls :
    (pc[c] = "done" /\ ~cfg[c].useInitialModel) => clusterCalls[c] = 1

\* the unweighted call under the diagonal constraint with the default
\* clusterer: the learner seeds itself
SelfSeeding(c) == TakesWrapper(cfg[c]) /\ cfg[c].defaultClusterer

\* C9 as amended: a call with useInitialModel = false, other than an
\* unweighted call under the diagonal constraint with the default clusterer,
\* calls the clusterer exactly once, before the first likelihood evaluation,
\* E/M pass or learner call; that other call and every call with
\* useInitialModel = true never call it, and with useInitialModel = true the
\* first likelihood evaluation and the first E-step read the caller's model.
C9_ClusteringOnce ==
  \A c \in Calls :
    /\ clusterCalls[c] <= 1
    /\ (~cfg[c].useInitialModel /\ ~SelfSeeding(c)) =>
         /\ (likelihoodCalls[c] > 0 \/ learnCalls[c] > 0 \/ passes[c] > 0 \/ InBody(c)
               \/ pc[c] \in { "likelihood", "learn", "done" })
              => clusterCalls[c] = 1
         /\ pc[c] \in { "enter", "cluster" } => clusterCalls[c] = 0
    /\ (cfg[c].useInitialModel \/ SelfSeeding(c)) => clusterCalls[c] = 0
    /\ (/\ cfg[c].useInitialModel
        /\ \/ pc[c] \in { "likelihood", "learn" }
           \/ passes[c] = 0 /\ pc[c] \in { "while", "estep", "normalize", "mstep" })
         => Current(c) = cfg[c].model

C9_Witness ==
  \E c \in Calls :
    /\ Returned(c)
    /\ ~cfg[c].useInitialModel
    /\ clusterCalls[c] = 1
    /\ likelihoodCalls[c] >= 2

\* C10: with useInitialModel = false the result does not depend on what the
\* caller left in dists and weights: two calls that differ in nothing else
\* return the same components and mixing weights.
C10_IncomingModelIgnored ==
  (/\ pc[1] = "done" /\ pc[2] = "done"
   /\ ~cfg[1].useInitialModel
   /\ cfg[2] = [cfg[1] EXCEPT !.model = cfg[2].model])
    => Current(1) = Current(2)

C10_Witness ==
  /\ pc[1] = "done" /\ pc[2] = "done"
  /\ ~cfg[1].useInitialModel
  /\ cfg[2] = [cfg[1] EXCEPT !.model = cfg[2].model]
  /\ cfg[1].model # cfg[2].model
  /\ Generic(1) /\ passes[1] >= 1
  /\ Current(1) = Current(2)

-----------------------------------------------------------------------------
(* InitialClustering.                                                      *)

\* the call stands right after InitialClustering
AfterClustering(c) == clusterCalls[c] = 1 /\ pc[c] \in { "likelihood", "learn" }

\* the points the clusterer assigned to component k of call c
PointsOf(c, k) == Assigned(cfg[c].observations, cfg[c].assignments, k)

\* max(count, 1)
MaxCountOne(n) == IF n > 1 THEN Int2R(n) ELSE One

\* the sum of the assigned points over max(count, 1)
CenteredMean(c, k) ==
  VecDiv(VecSum(PointsOf(c, k), 2), MaxCountOne(Len(PointsOf(c, k))))

\* the sum of the centred outer products over max(count, 1)
CenteredCovariance(c, k) ==
  LET pts == PointsOf(c, k)
      mean == CenteredMean(c, k)
  IN  MatDiv(MatSum([r \in Dom(pts) |->
                       Outer(VecSub(pts[r], mean), VecSub(pts[r], mean))], 2),
             MaxCountOne(Len(pts)))

\* C12: after InitialClustering every component has the mean of its assigned
\* points (their sum over max(count, 1)) and the constrained sum of the
\* centred outer products over max(count, 1): the uncentred accumulation of
\* the first pass adds nothing to it.
C12_CenteredCovarianceOnly ==
  \A c \in Calls :
    AfterClustering(c) =>
      \A k \in Components(c) :
        /\ dists[c][k].Mean = CenteredMean(c, k)
        /\ dists[c][k].Covariance =
             ApplyConstraint(cfg[c].constraint, CenteredCovariance(c, k))

\* C13: after InitialClustering the mixing weight of every component is the
\* number of points assigned to it over the number of points, the weights
\* sum to 1, and nothing of what weights held before the call is left.
C13_InitialWeightsAreFractions ==
  \A c \in Calls :
    AfterClustering(c) =>
      /\ \A k \in Components(c) :
           weights[c][k] = Rat(Len(PointsOf(c, k)), N(c))
      /\ Accu(weights[c]) = One

C13_Witness ==
  \E c \in Calls :
    /\ AfterClustering(c)
    /\ cfg[c].model.weights # << Rat(1, 2), Rat(1, 2) >>
    /\ weights[c] = << Rat(2, 3), Rat(1, 3) >>
    /\ weights[c] # cfg[c].model.weights

\* C14: a component to which the clusterer assigns no point comes out of
\* InitialClustering with a zero mean, the constrained zero matrix as its
\* covariance and the mixing weight 0, all of them finite: the divisor of an
\* empty cluster is 1.
C14_EmptyClusterIsZero ==
  \A c \in Calls :
    AfterClustering(c) =>
      \A k \in Components(c) :
        PointsOf(c, k) = << >> =>
          /\ dists[c][k].Mean = ZeroVec(2)
          /\ dists[c][k].Covariance =
               ApplyConstraint(cfg[c].constraint, ZeroMat(2, 2))
          /\ weights[c][k] = Zero
          /\ ~HasNaNVec(dists[c][k].Mean)
          /\ ~HasNaNMat(dists[c][k].Covariance)
          /\ \A a \in 1 .. 2 : IsFinite(dists[c][k].Mean[a])

C14_Witness ==
  \E c \in Calls :
    /\ AfterClustering(c)
    /\ \E k, j \in Components(c) :
         /\ PointsOf(c, k) = << >>
         /\ dists[c][k].Mean = ZeroVec(2)
         /\ weights[c][k] = Zero
         /\ weights[c][j] = One

-----------------------------------------------------------------------------
(* The covariance constraint and the fast diagonal path.                   *)

\* the covariance is a fixed point of the call's constraint
Constrained(c, cov) == ApplyConstraint(cfg[c].constraint, cov) = cov

\* C15: every covariance the engine stores is the output of ApplyConstraint:
\* the covariance of every component after InitialClustering, of every
\* component an M-step of either overload has updated, and so of every
\* component from there on, whatever the number of passes, up to the return
\* of a call with useInitialModel = false, is a fixed point of the constraint.
C15_StoredCovariancesConstrained ==
  \A c \in Calls :
    /\ AfterMStep(c) =>
         \A k \in Components(c) :
           dists[c][k].Covariance # before[c].dists[k].Covariance
             => Constrained(c, dists[c][k].Covariance)
    /\ (/\ ~cfg[c].useInitialModel
        /\ pc[c] # "failed"
        /\ (clusterCalls[c] = 1 \/ pc[c] = "done")) =>
         \A k \in Components(c) : Constrained(c, dists[c][k].Covariance)

C15_Witness ==
  \E c \in Calls :
    /\ Returned(c)
    /\ ~cfg[c].useInitialModel
    /\ cfg[c].constraint = "diagonal"
    /\ passes[c] >= 2
    /\ \E k \in Components(c) :
         /\ dists[c][k].Covariance # Seeded(cfg[c]).dists[k].Covariance
         /\ dists[c][k].Covariance[1][1] # Zero
         /\ CenteredCovariance(c, k)[1][2] # Zero

\* the covariance matrices at hand in a state: those of the caller's
\* model and those of the components as they stand
CovariancesAtHand ==
  UNION { { dists[c][k].Covariance, cfg[c].model.dists[k].Covariance } :
            c \in Calls, k \in 1 .. 2 }

\* C16: the constraint policy is idempotent in both variants: applied to a
\* constrained matrix it returns that matrix, entry by entry.
C16_ConstraintIdempotent ==
  \A cov \in CovariancesAtHand : \A variant \in { "none", "diagonal" } :
    ApplyConstraint(variant, ApplyConstraint(variant, cov))
      = ApplyConstraint(variant, cov)

C16_Witness ==
  \E c \in Calls :
    /\ AfterMStep(c)
    /\ \E k \in Components(c) :
         /\ dists[c][k].Covariance # before[c].dists[k].Covariance
         /\ dists[c][k].Covariance[1][2] \notin { Zero, NaN }
         /\ ApplyConstraint("diagonal", dists[c][k].Covariance)
              # dists[c][k].Covariance
         /\ ApplyConstraint("none", dists[c][k].Covariance)
              = dists[c][k].Covariance

\* the parameters the learner of call c starts from
LearnerSeed(c) == [dists |-> g[c].dists, weights |-> g[c].weights]

\* C17: in the unweighted overload under the diagonal constraint the learner
\* is called exactly once and the generic loop never runs; with
\* useInitialModel = true it starts from the caller's model, with the default
\* clusterer and no initial model it seeds itself, and in both cases
\* InitialClustering is not called; with another clusterer and no initial
\* model InitialClustering runs first and the learner starts from the seeded
\* model, kept as it is.  Under any other constraint the learner is never
\* called.
C17_FastPathSelection ==
  \A c \in Calls :
    /\ learnCalls[c] <= 1
    /\ cfg[c].constraint # "diagonal" => learnCalls[c] = 0 /\ g[c] = EmptyLearner
    /\ TakesWrapper(cfg[c]) =>
         /\ likelihoodCalls[c] = 0 /\ passes[c] = 0 /\ ~InBody(c)
         /\ pc[c] = "done" => learnCalls[c] = 1
         /\ (pc[c] = "em" /\ g[c].iter = 0) =>
              IF cfg[c].useInitialModel
                THEN /\ clusterCalls[c] = 0
                     /\ LearnerSeed(c) =
                          KeepExisting(cfg[c].model.dists, cfg[c].model.weights)
              ELSE IF cfg[c].defaultClusterer
                THEN /\ clusterCalls[c] = 0
                     /\ LearnerSeed(c) = StaticSubset(cfg[c].observations, K(c))
              ELSE /\ clusterCalls[c] = 1
                   /\ LearnerSeed(c) =
                        KeepExisting(Seeded(cfg[c]).dists, Seeded(cfg[c]).weights)

C17_Witness ==
  \E c \in Calls :
    /\ TakesWrapper(cfg[c])
    /\ ~cfg[c].useInitialModel /\ ~cfg[c].defaultClusterer
    /\ pc[c] = "em" /\ g[c].iter = 0
    /\ clusterCalls[c] = 1 /\ learnCalls[c] = 1
    /\ LearnerSeed(c) = KeepExisting(Seeded(cfg[c]).dists, Seeded(cfg[c]).weights)
    /\ LearnerSeed(c) # KeepExisting(cfg[c].model.dists, cfg[c].model.weights)
    /\ LearnerSeed(c) # StaticSubset(cfg[c].observations, K(c))

-----------------------------------------------------------------------------
(* What a call leaves alone.                                               *)

\* C19: no step of a call changes the observations or the external point
\* weights, and the steps that evaluate LogLikelihood leave the components
\* and the mixing weights as they are.
C19_InputsReadOnly ==
  [][\A c \in Calls :
       /\ cfg'[c].observations = cfg[c].observations
       /\ cfg'[c].probabilities = cfg[c].probabilities
       /\ (pc[c] \in { "likelihood", "update" } /\ pc'[c] # pc[c]) =>
            /\ dists'[c] = dists[c]
            /\ weights'[c] = weights[c]]_vars

C19_Witness ==
  \E c \in Calls :
    /\ Returned(c)
    /\ cfg[c].overload = Weighted
    /\ cfg[c].probabilities = << One, Zero, Int2R(2) >>
    /\ likelihoodCalls[c] >= 3
    /\ Current(c) # cfg[c].model
    /\ ~IsLogNaN(l[c])

-----------------------------------------------------------------------------
(* Calls side by side.                                                     *)

\* calls 1 and 2 have returned
BothReturned == pc[1] = "done" /\ pc[2] = "done"

\* C11: the weighted overload called with every point weight 1 returns the
\* components and mixing weights of the unweighted overload called with the
\* same engine, observations and initial model, after as many passes.
C11_WeightedEqualsUnweighted ==
  (/\ BothReturned
   /\ cfg[1].overload = Unweighted /\ cfg[1].useInitialModel
   /\ cfg[2] = [cfg[1] EXCEPT !.overload = Weighted])
    => /\ Current(1) = Current(2)
       /\ passes[1] = passes[2]

\* C18: two calls on the fast diagonal path that differ only in the engine's
\* tolerance leave the learner and the model in the same state, while a call
\* on the generic path runs a pass only when the change of the likelihood
\* exceeds its own tolerance and, short of the cap, returns only when it
\* does not.
C18_ToleranceIgnoredOnFastPath ==
  /\ (/\ BothReturned
      /\ TakesWrapper(cfg[1])
      /\ cfg[2] = [cfg[1] EXCEPT !.tolerance = cfg[2].tolerance])
       => /\ Current(1) = Current(2)
          /\ g[1] = g[2]
  /\ \A c \in Calls :
       Generic(c) =>
         /\ InBody(c) => ExceedsTolerance(l[c], lOld[c], cfg[c].tolerance)
         /\ (pc[c] = "done" /\ iteration[c] # cfg[c].maxIterations) =>
              ~ExceedsTolerance(l[c], lOld[c], cfg[c].tolerance)

C18_Witness ==
  /\ BothReturned
  /\ TakesWrapper(cfg[1])
  /\ cfg[2] = [cfg[1] EXCEPT !.tolerance = cfg[2].tolerance]
  /\ cfg[1].tolerance # cfg[2].tolerance
  /\ g[1].iter >= 2 /\ g[2].iter >= 2
  /\ Current(1) = Current(2)
  /\ Current(1) # cfg[1].model

\* C20: a call interleaved step by step with another call, on another model
\* instance and with other arguments, returns exactly what the call made by
\* itself with its arguments returns: the same components, mixing weights
\* and likelihood, after as many passes and learner iterations.
C20_InterleavedAsAlone ==
  \A c \in Calls \ Sequential : \A s \in Sequential :
    (pc[c] = "done" /\ pc[s] = "done" /\ cfg[c] = cfg[s]) =>
      /\ Current(c) = Current(s)
      /\ l[c] = l[s] /\ lOld[c] = lOld[s]
      /\ passes[c] = passes[s]
      /\ g[c] = g[s]

C20_Witness ==
  /\ BothReturned /\ pc[3] = "done"
  /\ overlapped
  /\ cfg[1] # cfg[2] /\ cfg[3] = cfg[2]
  /\ Generic(2) /\ passes[2] >= 2
  /\ Current(2) = Current(3)
  /\ Current(2) # Current(1)
  /\ ~HasNaNVec(weights[2])

-----------------------------------------------------------------------------
(* The M-step in detail.                                                   *)

\* the column of component k the M-step of call c works with: the
\* responsibilities, times the point weights in the weighted overload
MassColumn(c, k) ==
  IF cfg[c].overload = Weighted
    THEN Schur(Col(condProb[c], k), cfg[c].probabilities)
    ELSE Col(condProb[c], k)

EffectiveMass(c, k) == Accu(MassColumn(c, k))

\* N, or the sum of the point weights
TotalMass(c) ==
  IF cfg[c].overload = Weighted THEN Accu(cfg[c].probabilities) ELSE Int2R(N(c))

\* C21: after every M-step the mixing weight of every component is its
\* effective mass of this iteration over the total mass: the number of
\* observations in the unweighted overload, the sum of the point weights in
\* the weighted one.
C21_WeightsAreMassOverTotal ==
  \A c \in Calls :
    AfterMStep(c) =>
      \A k \in Components(c) :
        /\ probRowSums[c][k] = EffectiveMass(c, k)
        /\ weights[c][k] = Div(EffectiveMass(c, k), TotalMass(c))

C21_Witness ==
  \E c \in Calls :
    /\ AfterMStep(c)
    /\ cfg[c].overload = Weighted
    /\ cfg[c].probabilities = << One, Zero, Int2R(2) >>
    /\ weights[c] = << Rat(1, 3), Rat(2, 3) >>
    /\ weights[c] # before[c].weights
    /\ Accu(probRowSums[c]) # One

\* the component was written by the latest M-step
Updated(c, k) == cfg[c].overload = Weighted \/ NeZero(EffectiveMass(c, k))

\* C22: the E-step of an iteration reads the means, covariances and mixing
\* weights of the previous iteration, all of them, before the M-step writes
\* any; and the M-step gives a component its new mean first and then the
\* constrained weighted covariance centred on that new mean.
C22_CovarianceOnUpdatedMean ==
  \A c \in Calls :
    AfterMStep(c) =>
      /\ rawProb[c] = ConditionalProbabilities(cfg[c].observations, before[c].dists,
                                               before[c].weights)
      /\ \A k \in Components(c) :
           Updated(c, k) =>
             /\ dists[c][k].Mean =
                  WeightedMean(cfg[c].observations, MassColumn(c, k),
                               EffectiveMass(c, k))
             /\ dists[c][k].Covariance =
                  ApplyConstraint(cfg[c].constraint,
                                  WeightedCovariance(cfg[c].observations,
                                                     dists[c][k].Mean,
                                                     MassColumn(c, k),
                                                     EffectiveMass(c, k)))

C22_Witness ==
  \E c \in Calls :
    /\ AfterMStep(c)
    /\ \E k \in Components(c) :
         /\ Updated(c, k)
         /\ ~HasNaNVec(dists[c][k].Mean)
         /\ dists[c][k].Mean # before[c].dists[k].Mean
         /\ dists[c][k].Covariance #
              ApplyConstraint(cfg[c].constraint,
                              WeightedCovariance(cfg[c].observations,
                                                 before[c].dists[k].Mean,
                                                 MassColumn(c, k),
                                                 EffectiveMass(c, k)))
    /\ rawProb[c] # ConditionalProbabilities(cfg[c].observations, dists[c], weights[c])

\* the orders in which the K components can be taken
Orders(k) ==
  { order \in [1 .. k -> 1 .. k] : \A a, b \in 1 .. k : order[a] = order[b] => a = b }

\* C23: within an iteration the components can be taken in any order: the
\* E-step loop run in any order gives the responsibility matrix of the
\* code's ascending order, and the M-step loop run in any order gives its
\* means and covariances, the mixing weights being those of the masses.
C23_AnyComponentOrder ==
  \A c \in Calls :
    /\ pc[c] = "normalize" =>
         \A order \in Orders(K(c)) :
           EStepInOrder(order, Unset(N(c), K(c)), cfg[c].observations, dists[c],
                        weights[c]) = condProb[c]
    /\ AfterMStep(c) =>
         /\ \A order \in Orders(K(c)) :
              MStepInOrder(order, before[c].dists, cfg[c].observations, condProb[c],
                           cfg[c].probabilities, cfg[c].constraint,
                           cfg[c].overload) = dists[c]
         /\ weights[c] =
              NewWeights([k \in Components(c) |-> EffectiveMass(c, k)], TotalMass(c))

C23_Witness ==
  \E c \in Calls :
    /\ AfterMStep(c)
    /\ dists[c][1] # before[c].dists[1]
    /\ dists[c][2] # before[c].dists[2]
    /\ dists[c][1] # dists[c][2]
    /\ ~HasNaNVec(dists[c][1].Mean) /\ ~HasNaNVec(dists[c][2].Mean)
    /\ MStepInOrder(<< 2, 1 >>, before[c].dists, cfg[c].observations, condProb[c],
                    cfg[c].probabilities, cfg[c].constraint, cfg[c].overload)
         = dists[c]

\* the failure of the clusterer has reached the caller of Estimate
Failed(c) == pc[c] = "failed"

\* C25: a failure of the clusterer leaves Estimate at once: the clusterer was
\* called once, no likelihood was evaluated, no pass and no learner ran, and
\* the components and mixing weights are the ones the caller passed in; only
\* a call that had to cluster can fail this way.
C25_ClustererFailurePropagates ==
  \A c \in Calls :
    /\ (cfg[c].clustererFails /\ clusterCalls[c] >= 1) =>
         /\ Failed(c)
         /\ clusterCalls[c] = 1
         /\ likelihoodCalls[c] = 0
         /\ passes[c] = 0
         /\ learnCalls[c] = 0
         /\ iteration[c] = 0
         /\ dists[c] = cfg[c].model.dists
         /\ weights[c] = cfg[c].model.weights
    /\ Failed(c) =>
         /\ cfg[c].clustererFails
         /\ ~cfg[c].useInitialModel
         /\ clusterCalls[c] = 1

C25_Witness ==
  \E c \in Calls :
    /\ Failed(c)
    /\ clusterCalls[c] = 1
    /\ Accu(weights[c]) = One
    /\ weights[c] = cfg[c].model.weights

\* the likelihood of the call's current model was the last thing evaluated
JustEvaluated(c) == Generic(c) /\ pc[c] = "while" /\ likelihoodCalls[c] >= 1

\* the points the latest evaluation found with mixture density 0
Outliers(c) == ZeroDensityPoints(cfg[c].observations, dists[c], weights[c])

\* C24: a point of mixture density 0 is no error.  The evaluation that finds
\* one returns a log-likelihood of minus infinity (NaN if another point's
\* density is NaN), a line is printed for it exactly when the log sink
\* prints, the call goes on as its loop guard says, and the only failure a
\* call can end in is the clusterer's; two calls that differ only in whether
\* the sink prints return the same model and likelihood after the same
\* number of passes.
C24_ZeroDensityIsNoError ==
  /\ \A c \in Calls :
       /\ (JustEvaluated(c) /\ Outliers(c) # {}) =>
            /\ l[c].kind = "log"
            /\ l[c].of = Zero \/ IsNaN(l[c].of)
            /\ (\A j \in 1 .. N(c) :
                  ~IsNaN(MixtureDensity(cfg[c].observations, dists[c], weights[c], j)))
                 => l[c].of = Zero
            /\ cfg[c].verbose => diagnostics[c] >= Cardinality(Outliers(c))
       /\ (JustEvaluated(c) /\ likelihoodCalls[c] = 1) =>
            diagnostics[c] = IF cfg[c].verbose THEN Cardinality(Outliers(c)) ELSE 0
       /\ ~cfg[c].verbose => diagnostics[c] = 0
       /\ (Generic(c) /\ InBody(c)) => LoopCondition(c)
       /\ Returned(c) => ~LoopCondition(c)
       /\ Failed(c) => cfg[c].clustererFails
  /\ (/\ BothReturned
      /\ cfg[1].verbose /\ cfg[2] = [cfg[1] EXCEPT !.verbose = FALSE])
       => /\ Current(1) = Current(2)
          /\ l[1] = l[2] /\ lOld[1] = lOld[2]
          /\ passes[1] = passes[2]

C24_Witness ==
  /\ BothReturned
  /\ cfg[1].verbose /\ cfg[2] = [cfg[1] EXCEPT !.verbose = FALSE]
  /\ Outliers(1) # {}
  /\ diagnostics[1] >= 2 /\ diagnostics[2] = 0
  /\ passes[1] >= 1 /\ passes[2] = passes[1]
  /\ l[1].of = Zero
  /\ Current(1) = Current(2)
  /\ Current(1) # cfg[1].model

\* component k of call c entered the latest pass with mixing weight 0 and a
\* finite density at every point
Exhausted(c, k) ==
  /\ before[c].weights[k] = Zero
  /\ \A j \in 1 .. N(c) :
       IsFinite(Probability(before[c].dists[k], cfg[c].observations)[j])

\* C26: in the unweighted overload's loop a component that enters a pass
\* with mixing weight 0 and a finite density at every point leaves it as it
\* came: its column of responsibilities is 0 before and after normalisation,
\* its effective mass is 0, its mixing weight is 0 again, and its mean and
\* covariance are untouched; so it stays that way until Estimate returns.
C26_ZeroWeightAbsorbing ==
  \A c \in Calls :
    (Generic(c) /\ cfg[c].overload = Unweighted /\ AfterMStep(c)) =>
      \A k \in Components(c) :
        Exhausted(c, k) =>
          /\ \A j \in 1 .. N(c) : rawProb[c][j][k] = Zero
          /\ \A j \in 1 .. N(c) : condProb[c][j][k] = Zero
          /\ probRowSums[c][k] = Zero
          /\ weights[c][k] = Zero
          /\ dists[c][k] = before[c].dists[k]

C26_Witness ==
  \E c \in Calls : \E k \in Components(c) :
    /\ Generic(c) /\ cfg[c].overload = Unweighted /\ AfterMStep(c)
    /\ cfg[c].useInitialModel
    /\ cfg[c].model.weights[k] # Zero
    /\ passes[c] >= 1
    /\ Exhausted(c, k)
    /\ weights[c][k] = Zero
    /\ dists[c][k] = cfg[c].model.dists[k]
    /\ \E i \in Components(c) : dists[c][i] # cfg[c].model.dists[i]

\* the call is somewhere inside ArmadilloGMMWrapper
InWrapper(c) == pc[c] \in { "learn", "em", "extract" }

\* C27: the weighted overload never enters ArmadilloGMMWrapper and never
\* runs the learner, whatever the constraint: it evaluates the likelihood
\* and loops on its own guard with the configured tolerance; the unweighted
\* overload under the diagonal constraint returns from the learner without
\* a pass of the loop and without a likelihood evaluation.
C27_WeightedNeverDelegates ==
  \A c \in Calls :
    /\ cfg[c].overload = Weighted =>
         /\ ~InWrapper(c)
         /\ learnCalls[c] = 0
         /\ g[c] = EmptyLearner
         /\ InBody(c) => ExceedsTolerance(l[c], lOld[c], cfg[c].tolerance)
         /\ (pc[c] = "done" /\ iteration[c] # cfg[c].maxIterations) =>
              ~ExceedsTolerance(l[c], lOld[c], cfg[c].tolerance)
         /\ pc[c] = "done" => likelihoodCalls[c] >= 1
    /\ (/\ cfg[c].overload = Unweighted /\ cfg[c].constraint = "diagonal"
        /\ pc[c] = "done") =>
         /\ learnCalls[c] >= 1
         /\ passes[c] = 0
         /\ likelihoodCalls[c] = 0

C27_Witness ==
  \E c \in Calls :
    /\ cfg[c].overload = Weighted /\ cfg[c].constraint = "diagonal"
    /\ cfg[c].tolerance = Int2R(8)
    /\ pc[c] = "done"
    /\ passes[c] >= 1
    /\ iteration[c] # cfg[c].maxIterations
    /\ ExceedsTolerance(l[c], lOld[c], One)
    /\ learnCalls[c] = 0

\* the model the loop starts from: the caller's, or the clustering's
Start(config) == IF config.useInitialModel THEN config.model ELSE Seeded(config)

\* the log-likelihood is a finite number
IsLogFinite(x) == x.kind = "log" /\ IsFinite(x.of) /\ Gt(x.of, Zero)

\* the log-likelihood of the model the loop starts from
InitialL(config) ==
  LogLikelihood(config.observations, Start(config).dists, Start(config).weights)

IsMinusInf(x) == x.kind = "log" /\ x.of = Zero

\* C29: when the log-likelihood is minus infinity both before and after a
\* pass, l - lOld is NaN and the guard is false for every tolerance and
\* every maxIterations: the call is never inside the body with both values
\* minus infinity, and at the test after such a pass the guard sends it out
\* of the loop.
C29_BothMinusInfinityExits ==
  \A c \in Calls :
    (Generic(c) /\ IsMinusInf(l[c]) /\ IsMinusInf(lOld[c])) =>
      /\ ~InBody(c)
      /\ \A tolerance \in Tolerances : ~ExceedsTolerance(l[c], lOld[c], tolerance)
      /\ ~LoopCondition(c)
      /\ pc[c] \in { "while", "done" }
      /\ passes[c] >= 1
      /\ Outliers(c) # {}

C29_Witness ==
  \E c \in Calls :
    /\ Returned(c)
    /\ IsMinusInf(l[c]) /\ IsMinusInf(lOld[c])
    /\ cfg[c].maxIterations = 0
    /\ cfg[c].tolerance = One
    /\ passes[c] = 1
    /\ Current(c) # Start(cfg[c])

\* every off-diagonal entry of the matrix is 0
IsDiagonal(cov) == \A a \in Dom(cov) : \A b \in Dom(cov[a]) : a # b => cov[a][b] = Zero

\* the learner of call c was started from the model in dists and weights
KeptExisting(c) ==
  TakesWrapper(cfg[c]) /\ (~cfg[c].defaultClusterer \/ cfg[c].useInitialModel)

\* C30: a call that returns from the fast diagonal path holds diagonal
\* covariances, the learner's means and variances, and the learner's
\* weights; a learner started from the model at hand was handed the means,
\* the weights and the diagonals of the covariances only; and two such calls
\* on caller-supplied models that differ only in off-diagonal entries of the
\* covariances return the same model from the same learner state.
C30_FastPathDiagonalOnly ==
  /\ \A c \in Calls :
       /\ (TakesWrapper(cfg[c]) /\ pc[c] = "done") =>
            /\ \A i \in Components(c) :
                 /\ IsDiagonal(dists[c][i].Covariance)
                 /\ dists[c][i].Mean = g[c].dists[i].Mean
                 /\ Diag(dists[c][i].Covariance) = Diag(g[c].dists[i].Covariance)
            /\ weights[c] = g[c].weights
            /\ learnCalls[c] = 1
       /\ (KeptExisting(c) /\ pc[c] = "em" /\ g[c].iter = 0) =>
            /\ g[c].weights = weights[c]
            /\ \A i \in Components(c) :
                 /\ g[c].dists[i].Mean = dists[c][i].Mean
                 /\ g[c].dists[i].Covariance = DiagMat(Diag(dists[c][i].Covariance))
  /\ (/\ BothReturned
      /\ TakesWrapper(cfg[1]) /\ cfg[1].useInitialModel
      /\ cfg[2] = [cfg[1] EXCEPT !.model = Diagonalized(cfg[1].model)])
       => /\ Current(1) = Current(2)
          /\ g[1] = g[2]

C30_Witness ==
  /\ BothReturned
  /\ TakesWrapper(cfg[1]) /\ cfg[1].useInitialModel
  /\ cfg[2] = [cfg[1] EXCEPT !.model = Diagonalized(cfg[1].model)]
  /\ \E i \in Components(1) : ~IsDiagonal(cfg[1].model.dists[i].Covariance)
  /\ g[1].iter >= 1
  /\ Current(1) = Current(2)
  /\ weights[1] # cfg[1].model.weights
  /\ \A i \in Components(1) : IsDiagonal(dists[1][i].Covariance)

====
